---- MODULE Spec2Model ----
(***************************************************************************)
(* A model of tracing-tree's HierarchicalLayer (src/src/lib.rs): the       *)
(* layer's four callbacks (new_span, on_enter, on_event, on_close), the    *)
(* formatting helpers they call, and the part of the tracing registry the  *)
(* callbacks read (the span tree, the per-thread stack of entered spans).  *)
(*                                                                         *)
(* Text is a sequence of characters.  A character is a one-character       *)
(* string, except for the glyphs and control characters that matter to the *)
(* layout, which are written as tokens:                                    *)
(*   "BAR"  the connector bar  (U+2503, 3 bytes of UTF-8, 1 column)        *)
(*   "TEE"  the branch glyph   (U+2523, 3 bytes, 1 column)                 *)
(*   "DASH" the branch dash    (U+2501, 3 bytes, 1 column)                 *)
(*   "ESC"  the escape byte that opens a styling sequence (0 columns)      *)
(*   "e"    one character of a styling sequence after its ESC              *)
(*   "QUOTE" the double quote                                              *)
(*   "NL"   the line break                                                 *)
(*                                                                         *)
(* A callback is a sequence of steps: the locks it takes and every write   *)
(* it makes are steps of their own, so that the callbacks of two threads   *)
(* interleave as the code lets them.  Every write may fail; the code       *)
(* unwraps the result of every write, so a failed write is a panic, and a  *)
(* panic ends the thread (its guards are dropped, lck is poisoned when its *)
(* guard was held).                                                        *)
(***************************************************************************)
EXTENDS Integers, Sequences, FiniteSets, TLC

VARIABLES
    indent_amount,  \* HierarchicalLayer.indent_amount
    ansi,           \* HierarchicalLayer.ansi
    stdoutOwner,    \* the thread holding io::Stdout's lock, or NoThread
    lck,            \* HierarchicalLayer.lck: [owner, poisoned]
    parent,         \* registry: span id -> parent span id (NoSpan for a root)
    data,           \* registry extensions: span id -> its Data, or NoData
    alive,          \* registry: the spans created and not yet closed
    stack,          \* registry: thread -> its stack of entered spans
    clock,          \* the last value Local::now() returned, in ticks
    pc,             \* thread -> where it is in a callback, with its locals
    out,            \* the writes to stdout of the callbacks that are running
    headers,        \* history: the entered spans whose header is written whole
    created,        \* history: span id -> what new_span was given
    threads,        \* the threads of the host program
    fmt             \* the result of a formatting call made on its own (SpecFmt)

vars == <<indent_amount, ansi, stdoutOwner, lck, parent, data, alive, stack,
          clock, pc, out, headers, created, threads, fmt>>

layerVars == <<indent_amount, ansi, threads>>
runVars == <<stdoutOwner, lck, parent, data, alive, stack, clock, pc, out,
             headers, created>>

---------------------------------------------------------------------------
(* Bounds of the model. *)

MaxSpans == 3       \* spans created in one run
MaxStack == 3       \* entered spans on one thread's stack
MaxClock == 2       \* the latest time the clock shows, in ticks
MaxSharedSpans == 2 \* spans created in one run of two threads
MaxSharedStack == 2 \* entered spans on one thread's stack, of two threads
MaxSharedClock == 1 \* the latest time the clock shows to two threads
TicksPerMs == 2     \* clock ticks in one millisecond
MaxUnit == 2        \* the largest indent_amount of a run
MaxFmtUnit == 4     \* the largest indent_amount tried by SpecFmt
MaxDepth == 3       \* the largest shallow nesting depth tried by SpecFmt
DeepDepth == 51     \* one deep nesting depth tried by SpecFmt
LongLen == 210      \* the length of a long field value
MaxMs == 37         \* the largest elapsed time tried by SpecFmt

Threads == {"t1", "t2"}
NoThread == "none"
NoSpan == 0
NoData == [none |-> TRUE]
SpanIds == 1 .. MaxSpans
Units == 1 .. MaxUnit

---------------------------------------------------------------------------
(* Text. *)

Rep(c, n) == [i \in 1 .. n |-> c]

Utf8Len(c) == IF c \in {"BAR", "TEE", "DASH"} THEN 3 ELSE 1

\* str::len: the length in bytes
ByteLen(s) == Len(s) + 2 * Cardinality({i \in DOMAIN s : Utf8Len(s[i]) = 3})

\* unicode-width's column count, None (a control character) taken as 0
CharWidth(c) == IF c = "ESC" THEN 0 ELSE 1

\* UnicodeWidthStr::width: the length in columns
TextWidth(s) == Len(s) - Cardinality({i \in DOMAIN s : CharWidth(s[i]) = 0})

IsWhitespace(c) == c = " "

\* what a terminal shows of a line: everything but the styling sequences
Printable(s) == SelectSeq(s, LAMBDA c : c \notin {"ESC", "e"})

\* i64/usize to_string: the decimal digits
DigitChar(d) == CASE d = 0 -> "0" [] d = 1 -> "1" [] d = 2 -> "2" [] d = 3 -> "3"
                  [] d = 4 -> "4" [] d = 5 -> "5" [] d = 6 -> "6" [] d = 7 -> "7"
                  [] d = 8 -> "8" [] d = 9 -> "9"

RECURSIVE Digits(_)
Digits(n) == IF n < 10 THEN <<DigitChar(n)>>
             ELSE Append(Digits(n \div 10), DigitChar(n % 10))

\* usize is 64 bits wide; TLC's integers are 32 bits wide.  A wrapped
\* difference is larger than every length of the model under either modulus.
UsizeModulus == 2 ^ 30

\* a - b in usize: a panic with overflow checks (a debug build), wrapped
\* around without them (a release build)
UsizeSub(a, b, checks) ==
    IF a >= b THEN [ok |-> TRUE, wrapped |-> FALSE, v |-> a - b]
    ELSE IF checks THEN [ok |-> FALSE, wrapped |-> FALSE, v |-> 0]
    ELSE [ok |-> TRUE, wrapped |-> TRUE, v |-> a - b + UsizeModulus]

---------------------------------------------------------------------------
(* Styling: ansi_term's Style::paint, as HierarchicalLayer::styled and     *)
(* ColorLevel use it.  A style is the number of characters of its opening  *)
(* sequence after the ESC; the closing sequence is ESC [ 0 m.              *)

GreenBold == 6      \* [1;32m
Dimmed == 3         \* [2m
ResetLen == 3       \* [0m

Paint(style, text) ==
    <<"ESC">> \o Rep("e", style) \o text \o <<"ESC">> \o Rep("e", ResetLen)

styled(style, text) == IF ansi THEN Paint(style, text) ELSE text

Levels == {"TRACE", "DEBUG", "INFO", "WARN", "ERROR"}

\* Color::RGB(252, 234, 160).bold() opens with [1;38;2;252;234;160m
LevelStyle(level) == IF level = "WARN" THEN 21 ELSE 6

\* the text ColorLevel paints
ColorLevelText(level) ==
    CASE level = "TRACE" -> <<"T", "R", "A", "C", "E">>
      [] level = "DEBUG" -> <<"D", "E", "B", "U", "G">>
      [] level = "INFO" -> <<" ", "I", "N", "F", "O">>
      [] level = "WARN" -> <<" ", "W", "A", "R", "N">>
      [] level = "ERROR" -> <<"E", "R", "R", "O", "R">>

ColorLevel(level) == Paint(LevelStyle(level), ColorLevelText(level))

\* tracing's Display for Level, which to_string() calls with no width
LevelToString(level) ==
    CASE level = "TRACE" -> <<"T", "R", "A", "C", "E">>
      [] level = "DEBUG" -> <<"D", "E", "B", "U", "G">>
      [] level = "INFO" -> <<"I", "N", "F", "O">>
      [] level = "WARN" -> <<"W", "A", "R", "N">>
      [] level = "ERROR" -> <<"E", "R", "R", "O", "R">>

\* on_event's level label
LevelLabel(level) == IF ansi THEN ColorLevel(level) ELSE LevelToString(level)

---------------------------------------------------------------------------
(* Values and their Debug rendering (format!("{:?}", value)). *)

\* a field value: an integer, a string (rendered in quotes), or the
\* fmt::Arguments of a message (rendered as it is displayed)
IntVal(n) == [kind |-> "int", n |-> n]
StrVal(s) == [kind |-> "str", s |-> s]
ArgsVal(s) == [kind |-> "args", s |-> s]

DebugFmt(v) ==
    CASE v.kind = "int" -> Digits(v.n)
      [] v.kind = "str" -> <<"QUOTE">> \o v.s \o <<"QUOTE">>
      [] v.kind = "args" -> v.s

Field(name, value) == [name |-> name, value |-> value]

---------------------------------------------------------------------------
(* Data: the record a span carries. *)

\* a record_debug that puts the pair first: under it C7_RecordFixed fails
Data_record_debug_front(kvs, field) ==
    <<<<field.name, DebugFmt(field.value)>>>> \o kvs

\* Visit for Data: record_debug pushes (name, rendered value) at the end
Data_record_debug(kvs, field) ==
    Append(kvs, <<field.name, DebugFmt(field.value)>>)

RECURSIVE Data_record(_, _)
Data_record(kvs, attrs) ==
    IF attrs = <<>> THEN kvs
    ELSE Data_record(Data_record_debug(kvs, Head(attrs)), Tail(attrs))

\* Data::new: the start time is read, then every attribute is visited once
Data_new(attrs, now) == [start |-> now, kvs |-> Data_record(<<>>, attrs)]

---------------------------------------------------------------------------
(* FmtEvent: the visitor that assembles an event's fields. *)

\* Visit for FmtEvent: record_debug
FmtEvent_record_debug(v, field) ==
    LET sep == (IF v.comma THEN <<",">> ELSE <<>>) \o <<" ">>
        body == IF field.name = <<"m", "e", "s", "s", "a", "g", "e">>
                THEN DebugFmt(field.value)
                ELSE field.name \o <<"=">> \o DebugFmt(field.value)
    IN  [comma |-> TRUE, buf |-> v.buf \o sep \o body]

RECURSIVE FmtEvent_record(_, _)
FmtEvent_record(v, fields) ==
    IF fields = <<>> THEN v
    ELSE FmtEvent_record(FmtEvent_record_debug(v, Head(fields)), Tail(fields))

\* event.record(&mut visitor) on a fresh visitor
EventBuf(fields) == FmtEvent_record([comma |-> FALSE, buf |-> <<>>], fields).buf

---------------------------------------------------------------------------
(* The connector prefix and the branch marker. *)

\* the idt loop of FmtEvent::print and HierarchicalLayer::print
Idt(indent, amount) ==
    [k \in 1 .. indent * amount |-> IF (k - 1) % amount = 0 THEN "BAR" ELSE " "]

\* usize::saturating_sub
SaturatingSub(a, b) == IF a >= b THEN a - b ELSE 0

\* the const LINE of print_indent
LINE == <<"TEE", "DASH">>

\* a marker without the "DASH" of LINE: under it C6_MarkerShape fails
print_indent_short(indent, amount) ==
    Idt(indent - 1, amount) \o <<"TEE">> \o Rep("DASH", SaturatingSub(amount, 2) \div 2)

\* HierarchicalLayer::print_indent, called with indent >= 1
print_indent(indent, amount) ==
    Idt(indent - 1, amount) \o LINE \o Rep("DASH", SaturatingSub(amount, 2) \div 2)

\* HierarchicalLayer::append_kvs with an empty leading
RECURSIVE append_kvs_rest(_)
append_kvs_rest(kvs) ==
    IF kvs = <<>> THEN <<>>
    ELSE <<",", " ">> \o Head(kvs)[1] \o <<"=">> \o Head(kvs)[2]
         \o append_kvs_rest(Tail(kvs))

append_kvs(kvs) ==
    IF kvs = <<>> THEN <<>>
    ELSE Head(kvs)[1] \o <<"=">> \o Head(kvs)[2] \o append_kvs_rest(Tail(kvs))

\* on_enter's buf: the styled name, the styled braces, the fields
HeaderBuf(name, kvs) ==
    styled(GreenBold, name) \o styled(GreenBold, <<"{">>) \o append_kvs(kvs)
    \o styled(GreenBold, <<"}">>)

---------------------------------------------------------------------------
(* textwrap::Wrapper, as the two print functions configure it: the default *)
(* splitter, break_words(true).  Offsets count from 0, as in the crate;    *)
(* the wrapped text holds one-byte characters and no hyphen, so an offset  *)
(* is an index and a word has no split point inside it.                    *)

Slice(src, from, to) == SubSeq(src, from + 1, to)

\* remaining_text.find(is_whitespace): the offset where the word at `from` ends
WordEnd(src, from) ==
    LET ws == {k \in from .. Len(src) - 1 : IsWhitespace(src[k + 1])}
    IN  IF ws = {} THEN Len(src) ELSE CHOOSE k \in ws : \A j \in ws : k <= j

\* WrapIterImpl::create_result_line
create_result_line(w, st) == IF st.start = 0 THEN w.initial_indent ELSE w.subsequent_indent

\* WrapIterImpl::new
WrapIterNew(w) ==
    [start |-> 0, split |-> 0, split_len |-> 0,
     line_width |-> TextWidth(w.initial_indent),
     line_width_at_split |-> TextWidth(w.initial_indent),
     in_whitespace |-> FALSE, lines |-> <<>>]

\* one turn of WrapIterImpl::next's loop, for the character at offset idx
WrapChar(w, src, idx, st) ==
    LET ch == src[idx + 1]
        cw == CharWidth(ch)
    IN  IF IsWhitespace(ch) THEN
            [st EXCEPT !.split = IF st.in_whitespace THEN st.split ELSE idx,
                       !.split_len = IF st.in_whitespace THEN st.split_len + 1 ELSE 1,
                       !.line_width_at_split = st.line_width + cw,
                       !.in_whitespace = TRUE,
                       !.line_width = st.line_width + cw]
        ELSE IF st.line_width + cw > w.width THEN
            LET wordFrom == st.split + st.split_len
                final_word == Slice(src, wordFrom, WordEnd(src, wordFrom))
                fits == st.line_width_at_split + TextWidth(final_word) <= w.width
                s1 == IF fits
                      THEN [st EXCEPT !.split = st.split + st.split_len + Len(final_word),
                                      !.split_len = 0, !.in_whitespace = FALSE]
                      ELSE [st EXCEPT !.in_whitespace = FALSE]
                s2 == IF s1.start >= s1.split
                      THEN [s1 EXCEPT !.split = idx, !.split_len = 0,
                                      !.line_width_at_split = s1.line_width]
                      ELSE s1
            IN  IF s2.start < s2.split THEN
                    [s2 EXCEPT !.lines = Append(s2.lines,
                                   create_result_line(w, s2) \o Slice(src, s2.start, s2.split)),
                               !.start = s2.split + s2.split_len,
                               !.line_width = s2.line_width + TextWidth(w.subsequent_indent)
                                              - s2.line_width_at_split + cw]
                ELSE [s2 EXCEPT !.line_width = s2.line_width + cw]
        ELSE [st EXCEPT !.in_whitespace = FALSE, !.line_width = st.line_width + cw]

\* the loop over the characters at offsets lo .. hi - 1, in order.  The range
\* is halved so that the evaluation stays shallow on long text, and the state
\* after the first half is bound by a set constructor so that it is computed
\* once.
RECURSIVE WrapLoop(_, _, _, _, _)
WrapLoop(w, src, lo, hi, st) ==
    IF lo >= hi THEN st
    ELSE IF hi = lo + 1 THEN WrapChar(w, src, lo, st)
    ELSE CHOOSE r \in UNION {{WrapLoop(w, src, mid, hi, left) :
                                  left \in {WrapLoop(w, src, lo, mid, st)}} :
                             mid \in {(lo + hi) \div 2}} : TRUE

\* the line added after the loop when text is left
WrapRest(w, src, st) ==
    IF st.start < Len(src)
    THEN Append(st.lines, create_result_line(w, st) \o Slice(src, st.start, Len(src)))
    ELSE st.lines

Wrapper(width, initial, subsequent) ==
    [width |-> width, initial_indent |-> initial, subsequent_indent |-> subsequent]

\* Wrapper::wrap / Wrapper::wrap_iter, collected: the lines of src (the
\* wrapper, the text and the state after the loop are each computed once)
Wrap(wrapper, text) ==
    CHOOSE r \in UNION {{WrapRest(w, src, st) :
                             st \in {WrapLoop(w, src, 0, Len(src), WrapIterNew(w))}} :
                        w \in {wrapper}, src \in {text}} : TRUE

---------------------------------------------------------------------------
(* The two print functions.  Each returns what it writes, one text per     *)
(* write (a line break is the character "NL"), or the panic it ends in.    *)

WrapWidth == 200

Panic(writes) == [panic |-> TRUE, writes |-> writes]
Done(writes) == [panic |-> FALSE, writes |-> writes]

\* FmtEvent::print's width: 200 - idt.len()
EventWidth(indent, amount, checks) ==
    UsizeSub(WrapWidth, ByteLen(Idt(indent, amount)), checks)

\* FmtEvent::print: every wrapped line but the last is written with a line
\* break, the last without; wrapped[0..wrapped.len() - 1] of no lines panics
\* (the subtraction with overflow checks, the slice index without)
FmtEvent_print(buf, indent, amount, checks) ==
    LET idt == Idt(indent, amount)
        width == EventWidth(indent, amount, checks)
        Written(wrapped) ==
            IF Len(wrapped) = 0 THEN Panic(<<>>)
            ELSE Done([i \in 1 .. Len(wrapped) |->
                          IF i < Len(wrapped) THEN Append(wrapped[i], "NL")
                          ELSE wrapped[i]])
    IN  IF ~width.ok THEN Panic(<<>>)
        ELSE CHOOSE r \in {Written(wrapped) :
                               wrapped \in {Wrap(Wrapper(width.v, <<>>, idt), buf)}} : TRUE

\* HierarchicalLayer::print's width: 200 + name_len - idt.len()
HeaderWidth(indent, name_len, amount, checks) ==
    UsizeSub(WrapWidth + name_len, ByteLen(Idt(indent, amount)), checks)

\* a print that writes no line: under it C9_HeaderBeforeEvent fails
HierarchicalLayer_print_nothing(buf, indent, name_len, amount, checks) == Done(<<>>)

\* HierarchicalLayer::print: every wrapped line is written with a line break
HierarchicalLayer_print(buf, indent, name_len, amount, checks) ==
    LET idt == Idt(indent, amount)
        width == HeaderWidth(indent, name_len, amount, checks)
    IN  IF ~width.ok THEN Panic(<<>>)
        ELSE CHOOSE r \in {Done([i \in 1 .. Len(wrapped) |-> Append(wrapped[i], "NL")]) :
                               wrapped \in {Wrap(Wrapper(width.v, idt, idt), buf)}} : TRUE

\* on_event's write of the elapsed time, the unit and the level
ElapsedAndLevel(ms, level) ==
    styled(Dimmed, Digits(ms)) \o styled(Dimmed, <<"m", "s">>) \o <<" ">>
    \o LevelLabel(level)

\* chrono's Duration::num_milliseconds of now - start
num_milliseconds(now, start) == (now - start) \div TicksPerMs

---------------------------------------------------------------------------
(* The registry, as the layer's Context reads it. *)

MessageName == <<"m", "e", "s", "s", "a", "g", "e">>

\* the attributes a span is created with: a span's field names are those of
\* its callsite, and span s is created at callsite s
SpanAttrs(s) ==
    IF s % 2 = 1
    THEN <<Field(<<"b">>, IntVal(2)), Field(<<"a">>, StrVal(<<"x">>))>>
    ELSE <<>>

\* the event callsites: a level and the fields recorded
Events ==
    { [level |-> "INFO", fields |-> <<Field(MessageName, ArgsVal(<<"h", "i">>))>>],
      [level |-> "ERROR", fields |-> <<Field(<<"n">>, IntVal(3)),
                                       Field(MessageName, ArgsVal(<<"h", "i">>))>>] }

\* span.metadata().name()
SpanName(s) == <<"s">> \o Digits(s)

StackIds(t) == {stack[t][i].id : i \in DOMAIN stack[t]}

Range(f) == {f[i] : i \in DOMAIN f}

\* SpanStack::current: the last entry that is not a duplicate
CurrentOf(stk) ==
    LET nd == {i \in DOMAIN stk : ~stk[i].duplicate}
    IN  IF nd = {} THEN NoSpan
        ELSE stk[CHOOSE i \in nd : \A j \in nd : j <= i].id

\* ctx.current_span().id()
CurrentSpan(t) == CurrentOf(stack[t])

\* SpanRef::from_root then the span itself: the parent chain, root first
RECURSIVE FromRoot(_)
FromRoot(s) == IF parent[s] = NoSpan THEN <<s>> ELSE Append(FromRoot(parent[s]), s)

\* ctx.scope() with `cur` the current span
ScopeOf(cur) == IF cur = NoSpan THEN <<>> ELSE FromRoot(cur)

\* the spans of s's parent chain, s included, that thread t has entered and
\* not exited
ActiveChain(t, s) == Range(ScopeOf(s)) \cap StackIds(t)

\* SpanStack::push
Push(stk, s) ==
    Append(stk, [id |-> s, duplicate |-> \E i \in DOMAIN stk : stk[i].id = s])

\* SpanStack::pop: the last entry of the span is removed
Pop(stk, s) ==
    LET at == {i \in DOMAIN stk : stk[i].id = s}
        last == CHOOSE i \in at : \A j \in at : j <= i
    IN  SubSeq(stk, 1, last - 1) \o SubSeq(stk, last + 1, Len(stk))

\* the id the registry gives the next span: ids are not used twice in a run
NextId == CHOOSE s \in SpanIds : created[s] = NoData /\ \A r \in SpanIds : r < s => created[r] # NoData

Idle == [at |-> "idle"]
Panicked == [at |-> "panicked"]

\* the thread is inside on_enter or on_event
InCallback(t) == pc[t].at \notin {"idle", "panicked"}

---------------------------------------------------------------------------
(* The initial state: a layer built by HierarchicalLayer::new(indent_amount) *)
(* and with_ansi(ansi), an empty registry, nothing written.                  *)

Layer ==
    /\ indent_amount \in Units
    /\ ansi \in BOOLEAN

Registry ==
    /\ stdoutOwner = NoThread
    /\ lck = [owner |-> NoThread, poisoned |-> FALSE]
    /\ parent = [s \in SpanIds |-> NoSpan]
    /\ data = [s \in SpanIds |-> NoData]
    /\ alive = {}
    /\ stack = [t \in Threads |-> <<>>]
    /\ clock = 0
    /\ pc = [t \in Threads |-> Idle]
    /\ out = <<>>
    /\ headers = {}
    /\ created = [s \in SpanIds |-> NoData]
    /\ fmt = [op |-> "none"]

\* a host program of one thread
Init ==
    /\ Layer
    /\ Registry
    /\ threads = {"t1"}

\* a host program of two threads
InitThreads ==
    /\ Layer
    /\ Registry
    /\ threads = Threads

---------------------------------------------------------------------------
(* Locks, the clock and the output. *)

\* a lock of stdout that excludes no one: under it the writes of two records
\* mix and C1_RecordsContiguous fails
StdoutLockShared(t) == TRUE

\* io::Stdout::lock: taken when no other thread holds it
StdoutLockFree(t) == stdoutOwner = NoThread

\* Mutex::lock on lck: taken when no thread holds it
LckFree(t) == lck.owner = NoThread

\* a guard of lck dropped: by a return, or by a panic, which poisons it
LckReleased(panicking) ==
    [owner |-> NoThread, poisoned |-> lck.poisoned \/ panicking]

\* the bounds of a run: those of one thread, or those of two
SpanBound == IF Cardinality(threads) > 1 THEN MaxSharedSpans ELSE MaxSpans
StackBound == IF Cardinality(threads) > 1 THEN MaxSharedStack ELSE MaxStack
ClockBound == IF Cardinality(threads) > 1 THEN MaxSharedClock ELSE MaxClock

\* the values Local::now() may return: the clock does not go back
Now == clock .. ClockBound

\* the writes the model keeps when thread t begins or leaves a callback: all
\* of them while another thread's callback is running, none otherwise
Window(t) ==
    IF \E u \in Threads \ {t} : InCallback(u) THEN out ELSE <<>>

\* the name of the record thread t begins: the thread and a number that tells
\* the thread's records in the window apart
RecId(t) ==
    <<t, 1 + Cardinality({Window(t)[i].rec : i \in {j \in DOMAIN Window(t) : Window(t)[j].th = t}})>>

\* one write to stdout, with what the model remembers of the call it is part of
Chunk(t, p, part, text, last) ==
    [th |-> t, rec |-> p.rec, kind |-> p.kind, span |-> p.span, part |-> part,
     text |-> text, last |-> last, depth |-> p.indent, active |-> p.active,
     entered |-> p.entered, cur |-> p.cur, level |-> p.level, now |-> p.now,
     start |-> p.start]

---------------------------------------------------------------------------
(* Layer::new_span and the callbacks the layer leaves to their defaults. *)

\* Registry::new_span (the parent is the creating thread's current span),
\* then HierarchicalLayer::new_span: the Data is built and inserted
new_span(t) ==
    /\ pc[t] = Idle
    /\ Cardinality({s \in SpanIds : created[s] # NoData}) < SpanBound
    /\ \E now \in Now :
        LET id == NextId
            attrs == SpanAttrs(id)
        IN  /\ clock' = now
            /\ parent' = [parent EXCEPT ![id] = CurrentSpan(t)]
            /\ data' = [data EXCEPT ![id] = Data_new(attrs, now)]
            /\ alive' = alive \cup {id}
            /\ created' = [created EXCEPT ![id] =
                              [at |-> now, attrs |-> attrs, name |-> SpanName(id),
                               parent |-> CurrentSpan(t)]]
    /\ UNCHANGED <<layerVars, stdoutOwner, lck, stack, pc, out, headers, fmt>>

\* Span::record after creation: the layer has no on_record, nothing is stored
on_record(t, s) ==
    /\ pc[t] = Idle
    /\ s \in alive
    /\ UNCHANGED vars

\* Registry::exit: the span leaves the thread's stack; the layer has no on_exit
on_exit(t, s) ==
    /\ pc[t] = Idle
    /\ s \in StackIds(t)
    /\ stack' = [stack EXCEPT ![t] = Pop(stack[t], s)]
    /\ headers' = {h \in headers : \E u \in Threads :
                                       \E i \in DOMAIN stack'[u] : stack'[u][i].id = h}
    /\ UNCHANGED <<layerVars, stdoutOwner, lck, parent, data, alive, clock, pc,
                   out, created, fmt>>

\* the thread drops the last handle of a span no thread has entered and no
\* live span has as its parent: Registry::try_close, then
\* HierarchicalLayer::on_close, which does nothing
on_close(t, s) ==
    /\ pc[t] = Idle
    /\ s \in alive
    /\ \A u \in Threads : s \notin StackIds(u)
    /\ \A c \in alive : parent[c] # s
    /\ alive' = alive \ {s}
    /\ data' = [data EXCEPT ![s] = NoData]
    /\ UNCHANGED <<layerVars, stdoutOwner, lck, parent, stack, clock, pc, out,
                   headers, created, fmt>>

---------------------------------------------------------------------------
(* HierarchicalLayer::on_enter. *)

\* an indent that counts the entering span too: under it
\* C4_DepthIsParentChain fails
EnterIndentWhole(scope) == Len(scope)

\* let indent = ctx.scope().collect::<Vec<_>>().len() - 1
EnterIndent(scope) == Len(scope) - 1

\* Registry::enter pushes the span, then on_enter: the lock of stdout is
\* taken, the span's Data is read, the indent and the buf are computed
on_enter(t, s) ==
    /\ pc[t] = Idle
    /\ s \in alive
    /\ Len(stack[t]) < StackBound
    /\ StdoutLockFree(t)
    /\ LET stk == Push(stack[t], s)
           cur == CurrentOf(stk)
       IN  /\ stack' = [stack EXCEPT ![t] = stk]
           /\ out' = Window(t)
           /\ IF data[s] = NoData
              THEN /\ pc' = [pc EXCEPT ![t] = Panicked]
                   /\ UNCHANGED stdoutOwner
              ELSE /\ stdoutOwner' = t
                   /\ pc' = [pc EXCEPT ![t] =
                        [at |-> "enter_lck", kind |-> "header", rec |-> RecId(t),
                         span |-> s, cur |-> cur,
                         indent |-> EnterIndent(ScopeOf(cur)),
                         active |-> Cardinality(ActiveChain(t, s) \ {s}),
                         entered |-> Cardinality(StackIds(t) \ {s}),
                         level |-> "none", now |-> -1, start |-> -1,
                         buf |-> HeaderBuf(created[s].name, data[s].kvs)]]
    /\ UNCHANGED <<layerVars, lck, parent, data, alive, clock, headers, created, fmt>>

\* let _guard = self.lck.lock().unwrap(), then print wraps the buf
enter_lock(t) ==
    /\ pc[t].at = "enter_lck"
    /\ LckFree(t)
    /\ \E checks \in BOOLEAN :
        LET p == pc[t]
            res == HierarchicalLayer_print(p.buf, p.indent,
                       ByteLen(created[p.span].name), indent_amount, checks)
        IN  IF lck.poisoned THEN
                /\ pc' = [pc EXCEPT ![t] = Panicked]
                /\ stdoutOwner' = NoThread
                /\ out' = Window(t)
                /\ UNCHANGED lck
            ELSE IF res.panic THEN
                /\ pc' = [pc EXCEPT ![t] = Panicked]
                /\ stdoutOwner' = NoThread
                /\ out' = Window(t)
                /\ lck' = LckReleased(TRUE)
            ELSE
                /\ pc' = [pc EXCEPT ![t] =
                            [p EXCEPT !.at = IF res.writes = <<>> THEN "enter_ret"
                                             ELSE "enter_print",
                                      !.buf = res.writes]]
                /\ lck' = [lck EXCEPT !.owner = t]
                /\ UNCHANGED <<stdoutOwner, out>>
    /\ UNCHANGED <<layerVars, parent, data, alive, stack, clock, headers, created, fmt>>

\* one writeln! of print's loop; a failed write is returned by print and
\* unwrapped by on_enter
enter_write(t) ==
    /\ pc[t].at = "enter_print"
    /\ \E fails \in BOOLEAN :
       LET p == pc[t]
           rest == Tail(p.buf)
       IN  IF fails THEN
               /\ pc' = [pc EXCEPT ![t] = Panicked]
               /\ stdoutOwner' = NoThread
               /\ lck' = LckReleased(TRUE)
               /\ out' = Window(t)
               /\ UNCHANGED headers
           ELSE
               /\ out' = Append(out, Chunk(t, p, "line", Head(p.buf), rest = <<>>))
               /\ pc' = [pc EXCEPT ![t] =
                           [p EXCEPT !.at = IF rest = <<>> THEN "enter_ret"
                                            ELSE "enter_print",
                                     !.buf = rest]]
               /\ headers' = IF rest = <<>> THEN headers \cup {p.span} ELSE headers
               /\ UNCHANGED <<stdoutOwner, lck>>
    /\ UNCHANGED <<layerVars, parent, data, alive, stack, clock, created, fmt>>

\* on_enter returns: _guard and stdout are dropped
enter_return(t) ==
    /\ pc[t].at = "enter_ret"
    /\ pc' = [pc EXCEPT ![t] = Idle]
    /\ stdoutOwner' = NoThread
    /\ lck' = LckReleased(FALSE)
    /\ out' = Window(t)
    /\ UNCHANGED <<layerVars, parent, data, alive, stack, clock, headers, created, fmt>>

---------------------------------------------------------------------------
(* HierarchicalLayer::on_event. *)

\* the indent of an event: the length of the scope when there is a current span
EventIndent(cur, scope) == IF cur # NoSpan THEN Len(scope) ELSE 0

NoStart == -1

\* a start time taken from the root of the current span's chain: under it
\* C8_ElapsedOfCurrentSpan fails
EventStartOfRoot(cur) ==
    IF cur = NoSpan THEN NoStart ELSE data[Head(ScopeOf(cur))].start

\* the start time on_event looks up: that of the current span, when the
\* registry still holds it
EventStart(cur) ==
    IF cur = NoSpan THEN NoStart
    ELSE IF cur \notin alive THEN NoStart
    ELSE data[cur].start

\* on_event up to print_indent: the lock of stdout is taken, the indent is
\* computed and, inside a span, the branch marker is written
on_event(t, level, fields) ==
    /\ pc[t] = Idle
    /\ StdoutLockFree(t)
    /\ LET cur == CurrentSpan(t)
           indent == EventIndent(cur, ScopeOf(cur))
           p == [at |-> "event_time", kind |-> "event", rec |-> RecId(t),
                 span |-> cur, cur |-> cur, indent |-> indent,
                 active |-> Cardinality(ActiveChain(t, cur)),
                 entered |-> Cardinality(StackIds(t)),
                 now |-> -1, start |-> NoStart, level |-> level, buf |-> fields]
       IN  \E fails \in (IF cur # NoSpan THEN BOOLEAN ELSE {FALSE}) :
           IF fails THEN
               /\ pc' = [pc EXCEPT ![t] = Panicked]
               /\ out' = Window(t)
               /\ UNCHANGED stdoutOwner
           ELSE
               /\ stdoutOwner' = t
               /\ pc' = [pc EXCEPT ![t] = p]
               /\ out' = IF cur # NoSpan
                         THEN Append(Window(t), Chunk(t, p, "marker",
                                         print_indent(indent, indent_amount), FALSE))
                         ELSE Window(t)
    /\ UNCHANGED <<layerVars, lck, parent, data, alive, stack, clock, headers,
                   created, fmt>>

\* the start time is looked up, the clock is read, the elapsed time and the
\* level are written when there is a start time, and the fields are visited
event_time(t) ==
    /\ pc[t].at = "event_time"
    /\ LET p == pc[t]
           start == EventStart(p.cur)
       IN  \E now \in Now, fails \in (IF start # NoStart THEN BOOLEAN ELSE {FALSE}) :
           LET q == [p EXCEPT !.at = "event_lck", !.now = now, !.start = start,
                              !.buf = EventBuf(p.buf)]
           IN  /\ clock' = now
               /\ IF p.cur # NoSpan /\ p.cur \in alive /\ data[p.cur] = NoData THEN
                      /\ pc' = [pc EXCEPT ![t] = Panicked]
                      /\ stdoutOwner' = NoThread
                      /\ out' = Window(t)
                  ELSE IF fails THEN
                      /\ pc' = [pc EXCEPT ![t] = Panicked]
                      /\ stdoutOwner' = NoThread
                      /\ out' = Window(t)
                  ELSE
                      /\ pc' = [pc EXCEPT ![t] = q]
                      /\ out' = IF start # NoStart
                                THEN Append(out, Chunk(t, q, "elapsed",
                                         ElapsedAndLevel(num_milliseconds(now, start),
                                                         p.level), FALSE))
                                ELSE out
                      /\ UNCHANGED stdoutOwner
    /\ UNCHANGED <<layerVars, lck, parent, data, alive, stack, headers, created, fmt>>

\* let _guard = self.lck.lock(): the guard is held whether or not the lock is
\* poisoned; then visitor.print wraps the buf
event_lock(t) ==
    /\ pc[t].at = "event_lck"
    /\ LckFree(t)
    /\ \E checks \in BOOLEAN :
        LET p == pc[t]
            res == FmtEvent_print(p.buf, p.indent, indent_amount, checks)
        IN  IF res.panic THEN
                /\ pc' = [pc EXCEPT ![t] = Panicked]
                /\ stdoutOwner' = NoThread
                /\ lck' = LckReleased(TRUE)
                /\ out' = Window(t)
            ELSE
                /\ pc' = [pc EXCEPT ![t] =
                            [p EXCEPT !.at = "event_print",
                                      !.buf = Append(res.writes, <<"NL">>)]]
                /\ lck' = [lck EXCEPT !.owner = t]
                /\ UNCHANGED <<stdoutOwner, out>>
    /\ UNCHANGED <<layerVars, parent, data, alive, stack, clock, headers, created, fmt>>

\* one write of visitor.print or the final writeln!, each unwrapped
event_write(t) ==
    /\ pc[t].at = "event_print"
    /\ \E fails \in BOOLEAN :
       LET p == pc[t]
           rest == Tail(p.buf)
       IN  IF fails THEN
               /\ pc' = [pc EXCEPT ![t] = Panicked]
               /\ stdoutOwner' = NoThread
               /\ lck' = LckReleased(TRUE)
               /\ out' = Window(t)
           ELSE
               /\ out' = Append(out, Chunk(t, p, IF rest = <<>> THEN "nl" ELSE "line",
                                           Head(p.buf), rest = <<>>))
               /\ pc' = [pc EXCEPT ![t] =
                           [p EXCEPT !.at = IF rest = <<>> THEN "event_ret"
                                            ELSE "event_print",
                                     !.buf = rest]]
               /\ UNCHANGED <<stdoutOwner, lck>>
    /\ UNCHANGED <<layerVars, parent, data, alive, stack, clock, headers, created, fmt>>

\* on_event returns: _guard and the visitor with its stdout are dropped
event_return(t) ==
    /\ pc[t].at = "event_ret"
    /\ pc' = [pc EXCEPT ![t] = Idle]
    /\ stdoutOwner' = NoThread
    /\ lck' = LckReleased(FALSE)
    /\ out' = Window(t)
    /\ UNCHANGED <<layerVars, parent, data, alive, stack, clock, headers, created, fmt>>

---------------------------------------------------------------------------
(* The layer under threads that create, enter and leave spans and emit     *)
(* events.                                                                 *)

Next ==
    \/ \E t \in threads : new_span(t)
    \/ \E t \in threads, s \in SpanIds : on_record(t, s)
    \/ \E t \in threads, s \in SpanIds : on_enter(t, s)
    \/ \E t \in threads : enter_lock(t)
    \/ \E t \in threads : enter_write(t)
    \/ \E t \in threads : enter_return(t)
    \/ \E t \in threads, e \in Events : on_event(t, e.level, e.fields)
    \/ \E t \in threads : event_time(t)
    \/ \E t \in threads : event_lock(t)
    \/ \E t \in threads : event_write(t)
    \/ \E t \in threads : event_return(t)
    \/ \E t \in threads, s \in SpanIds : on_exit(t, s)
    \/ \E t \in threads, s \in SpanIds : on_close(t, s)

Spec == Init /\ [][Next]_vars

SpecThreads == InitThreads /\ [][Next]_vars

---------------------------------------------------------------------------
(* The formatting of one record, at a depth and with fields the bounded    *)
(* runs above do not reach: one call of print_indent, of the level label,  *)
(* of on_event's writes or of on_enter's writes, its result kept in fmt.   *)

FmtUnits == 1 .. MaxFmtUnit
FmtDepths == (0 .. MaxDepth) \cup {DeepDepth}

\* a layer of any of the units, and no call made yet
InitFmt ==
    /\ indent_amount \in FmtUnits
    /\ ansi \in BOOLEAN
    /\ Registry
    /\ threads = {"t1"}

\* the messages of the events: a short one, a long word, long text of words
FmtMessages ==
    { <<"h", "i">>,
      Rep("x", LongLen),
      [i \in 1 .. LongLen |-> IF i % 7 = 0 THEN " " ELSE "w"] }

\* the attributes of the spans: none, two short ones, a long one
FmtAttrs ==
    { <<>>,
      <<Field(<<"b">>, IntVal(2)), Field(<<"a">>, StrVal(<<"x">>))>>,
      <<Field(<<"a">>, StrVal(Rep("x", LongLen)))>> }

\* the lines made by two runs of writes, one after the other: each run is
\* its closed lines and the text left open after them
Joined(l, r) ==
    IF r.lines = <<>>
    THEN [lines |-> l.lines, open |-> l.open \o r.open]
    ELSE [lines |-> l.lines \o <<l.open \o Head(r.lines)>> \o Tail(r.lines),
          open |-> r.open]

\* the lines the writes lo .. hi make: a write that ends in a line break
\* closes the line (no write has a line break inside)
RECURSIVE LinesRange(_, _, _)
LinesRange(writes, lo, hi) ==
    IF lo > hi THEN [lines |-> <<>>, open |-> <<>>]
    ELSE IF lo = hi THEN
        IF writes[lo] # <<>> /\ writes[lo][Len(writes[lo])] = "NL"
        THEN [lines |-> <<SubSeq(writes[lo], 1, Len(writes[lo]) - 1)>>, open |-> <<>>]
        ELSE [lines |-> <<>>, open |-> writes[lo]]
    ELSE CHOOSE x \in UNION {{Joined(l, r) : l \in {LinesRange(writes, lo, mid)},
                                             r \in {LinesRange(writes, mid + 1, hi)}} :
                             mid \in {(lo + hi) \div 2}} : TRUE

\* the lines of the output the writes make
Lines(written) ==
    CHOOSE x \in UNION {{IF all.open = <<>> THEN all.lines
                          ELSE Append(all.lines, all.open) :
                             all \in {LinesRange(writes, 1, Len(writes))}} :
                        writes \in {written}} : TRUE

\* the writes of on_event for an event at the given indent: the marker and
\* the elapsed time when there is a current span, the wrapped fields, the
\* line break
OnEventWrites(indent, ms, level, fields, checks) ==
    LET head == IF indent > 0
                THEN <<print_indent(indent, indent_amount), ElapsedAndLevel(ms, level)>>
                ELSE <<>>
    IN  CHOOSE x \in {IF res.panic THEN Panic(head \o res.writes)
                      ELSE Done(head \o res.writes \o << <<"NL">> >>) :
                         res \in {FmtEvent_print(EventBuf(fields), indent,
                                                 indent_amount, checks)}} : TRUE

\* the writes of on_enter for a span at the given indent
OnEnterWrites(indent, name, kvs, checks) ==
    HierarchicalLayer_print(HeaderBuf(name, kvs), indent, ByteLen(name),
                            indent_amount, checks)

FmtPrintIndent ==
    /\ fmt.op = "none"
    /\ \E indent \in 1 .. MaxDepth :
        fmt' = [op |-> "print_indent", indent |-> indent,
                text |-> print_indent(indent, indent_amount)]
    /\ UNCHANGED <<layerVars, runVars>>

FmtLevel ==
    /\ fmt.op = "none"
    /\ \E level \in Levels :
        fmt' = [op |-> "level", level |-> level, text |-> LevelLabel(level)]
    /\ UNCHANGED <<layerVars, runVars>>

FmtOnEvent ==
    /\ fmt.op = "none"
    /\ \E indent \in FmtDepths, level \in Levels, ms \in {0, MaxMs},
          msg \in FmtMessages, checks \in BOOLEAN :
        \E res \in {OnEventWrites(indent, ms, level,
                                   <<Field(MessageName, ArgsVal(msg))>>, checks)} :
            fmt' = [op |-> "on_event", indent |-> indent, panic |-> res.panic,
                    width |-> EventWidth(indent, indent_amount, checks),
                    lines |-> Lines(res.writes)]
    /\ UNCHANGED <<layerVars, runVars>>

FmtOnEnter ==
    /\ fmt.op = "none"
    /\ \E indent \in FmtDepths, attrs \in FmtAttrs, checks \in BOOLEAN :
        \E res \in {OnEnterWrites(indent, SpanName(1), Data_new(attrs, 0).kvs, checks)} :
            fmt' = [op |-> "on_enter", indent |-> indent, panic |-> res.panic,
                    width |-> HeaderWidth(indent, ByteLen(SpanName(1)), indent_amount,
                                          checks),
                    lines |-> Lines(res.writes)]
    /\ UNCHANGED <<layerVars, runVars>>

NextFmt ==
    \/ FmtPrintIndent
    \/ FmtLevel
    \/ FmtOnEvent
    \/ FmtOnEnter

SpecFmt == InitFmt /\ [][NextFmt]_vars

---------------------------------------------------------------------------
(* The properties of the output, stated over the writes in `out`, the      *)
(* ghost record `created` of every span's creation, and `fmt`.             *)

\* the connector prefix of a depth: depth * unit characters, "BAR" where the
\* position is a multiple of the unit, a space elsewhere
ConnectorPrefix(depth, unit) ==
    [k \in 1 .. depth * unit |-> IF (k - 1) % unit = 0 THEN "BAR" ELSE " "]

IsPrefixOf(p, text) == Len(p) <= Len(text) /\ SubSeq(text, 1, Len(p)) = p

\* the number of spans on the parent chain of s, s included, each parent
\* being the one noted when the span was created
RECURSIVE ChainLen(_)
ChainLen(s) == IF s = NoSpan THEN 0 ELSE 1 + ChainLen(created[s].parent)

\* C1: the writes of one record are one contiguous block of the output: no
\* write of another record lies between two writes of a record
C1_RecordsContiguous ==
    \A i, k \in DOMAIN out :
        (i < k /\ out[i].rec = out[k].rec) =>
            \A j \in i .. k : out[j].rec = out[i].rec

\* two threads at work: an event's record, marker to line break, is in the
\* output while the other thread is inside a span it entered
C1_Witness ==
    /\ threads = Threads
    /\ Len(out) >= 4
    /\ out[1].part = "marker"
    /\ out[Len(out)].part = "nl"
    /\ \E u \in Threads \ {out[1].th} : stack[u] # <<>>

\* C2: no failure inside a callback aborts it: no thread panics in on_enter
\* or on_event, whatever write fails
C2_NoCallbackAborts == \A t \in threads : pc[t] # Panicked

\* C4 as stated: the depth of every written line is the number of active
\* spans on the chain: for an event those enclosing it, the current one
\* included, for a header the active ancestors of the entering span
C4_DepthCountsActiveAncestors ==
    \A i \in DOMAIN out : out[i].depth = out[i].active

\* C4: the depth of every written line is the length of the parent chain of
\* the thread's current span, for a header one less, and a header line begins
\* with the connector prefix of that depth and nothing more of it
C4_DepthIsParentChain ==
    \A i \in DOMAIN out :
        LET c == out[i]
        IN  /\ c.kind = "event" => c.depth = ChainLen(c.cur)
            /\ c.kind = "header" =>
                /\ c.depth = ChainLen(c.cur) - 1
                /\ IsPrefixOf(ConnectorPrefix(c.depth, indent_amount), c.text)
                /\ c.text[c.depth * indent_amount + 1] \notin {"BAR", " "}

\* the header of the third of three spans entered nested in order
C4_Witness ==
    \E i \in DOMAIN out :
        /\ out[i].kind = "header"
        /\ out[i].depth = 2
        /\ out[i].active = 2
        /\ Len(Printable(out[i].text)) > 2 * indent_amount

\* the text of a field list: name=value, joined by a comma and a space
RECURSIVE FieldList(_)
FieldList(attrs) ==
    IF attrs = <<>> THEN <<>>
    ELSE (IF Len(attrs) > 1 THEN FieldList(SubSeq(attrs, 1, Len(attrs) - 1)) \o <<",", " ">>
          ELSE <<>>)
         \o attrs[Len(attrs)].name \o <<"=">> \o DebugFmt(attrs[Len(attrs)].value)

\* C7: the record of every span the registry holds is the one built when the
\* span was created (its start time, its fields in the order of creation),
\* and every header written lists those fields in that order
C7_RecordFixed ==
    /\ \A s \in alive :
        /\ data[s].start = created[s].at
        /\ Len(data[s].kvs) = Len(created[s].attrs)
        /\ \A n \in DOMAIN data[s].kvs :
            data[s].kvs[n] = <<created[s].attrs[n].name,
                               DebugFmt(created[s].attrs[n].value)>>
    /\ \A i \in DOMAIN out :
        out[i].kind = "header" =>
            Printable(out[i].text) =
                ConnectorPrefix(out[i].depth, indent_amount)
                \o created[out[i].span].name \o <<"{">>
                \o FieldList(created[out[i].span].attrs) \o <<"}", "NL">>

\* the header of a span of two fields, written when the span is entered again
\* at a time later than its creation
C7_Witness ==
    \E i \in DOMAIN out :
        /\ out[i].kind = "header"
        /\ Len(created[out[i].span].attrs) = 2
        /\ clock > created[out[i].span].at
        /\ \E n \in DOMAIN stack[out[i].th] :
            /\ stack[out[i].th][n].id = out[i].span
            /\ stack[out[i].th][n].duplicate

\* C8: an event carries an elapsed time exactly when its thread is inside a
\* span; the elapsed time is the whole milliseconds from the creation of the
\* thread's current span to the event, then "ms", a space and the level
C8_ElapsedOfCurrentSpan ==
    \A i \in DOMAIN out :
        LET c == out[i]
        IN  c.kind = "event" =>
            /\ c.part = "elapsed" =>
                /\ c.entered > 0
                /\ Printable(c.text) =
                       Digits((c.now - created[c.cur].at) \div TicksPerMs)
                       \o <<"m", "s", " ">> \o Printable(LevelLabel(c.level))
            /\ c.part \in {"line", "nl"} =>
                (c.entered > 0 <=>
                    \E j \in 1 .. i - 1 : out[j].rec = c.rec /\ out[j].part = "elapsed")

\* an event of a whole millisecond or more, inside a span that has a parent
C8_Witness ==
    \E i \in DOMAIN out :
        /\ out[i].part = "elapsed"
        /\ out[i].now - out[i].start >= TicksPerMs
        /\ created[out[i].cur].parent # NoSpan

\* C9: every write of an event inside a span comes after a complete header
\* of that span
C9_HeaderBeforeEvent ==
    \A i \in DOMAIN out :
        (out[i].kind = "event" /\ out[i].span # NoSpan) => out[i].span \in headers

\* an event inside a span that the other thread has entered too
C9_Witness ==
    /\ threads = Threads
    /\ \E i \in DOMAIN out :
        /\ out[i].kind = "event"
        /\ out[i].part = "nl"
        /\ out[i].span # NoSpan
        /\ \E u \in Threads \ {out[i].th} : out[i].span \in StackIds(u)

\* the five-character labels
PaddedLabel(level) ==
    CASE level = "TRACE" -> <<"T", "R", "A", "C", "E">>
      [] level = "DEBUG" -> <<"D", "E", "B", "U", "G">>
      [] level = "INFO" -> <<" ", "I", "N", "F", "O">>
      [] level = "WARN" -> <<" ", "W", "A", "R", "N">>
      [] level = "ERROR" -> <<"E", "R", "R", "O", "R">>

\* C3: the level label is the five-character one, styling aside, with and
\* without color
C3_LabelFiveChars ==
    fmt.op = "level" =>
        /\ Len(Printable(fmt.text)) = 5
        /\ Printable(fmt.text) = PaddedLabel(fmt.level)

\* C5: every line after the first of a record begins with the connector
\* prefix of the record's depth, and no line of a record, styling aside, is
\* longer than 200 characters
C5_LinesWithinWidth ==
    (fmt.op \in {"on_event", "on_enter"} /\ ~fmt.panic) =>
        \A n \in DOMAIN fmt.lines :
            /\ Len(Printable(fmt.lines[n])) <= WrapWidth
            /\ n > 1 => IsPrefixOf(ConnectorPrefix(fmt.indent, indent_amount),
                                   fmt.lines[n])

\* C6 as stated: the marker is the prefix of depth - 1, one "TEE" and
\* floor((unit - 2) / 2) "DASH"
C6_MarkerAsStated ==
    fmt.op = "print_indent" =>
        fmt.text = ConnectorPrefix(fmt.indent - 1, indent_amount) \o <<"TEE">>
                   \o Rep("DASH", (indent_amount - 2) \div 2)

\* C6: the marker is the prefix of depth - 1, one "TEE", one "DASH" and
\* floor(max(unit - 2, 0) / 2) more "DASH"
C6_MarkerShape ==
    fmt.op = "print_indent" =>
        fmt.text = ConnectorPrefix(fmt.indent - 1, indent_amount) \o <<"TEE", "DASH">>
                   \o Rep("DASH", (IF indent_amount > 2 THEN indent_amount - 2 ELSE 0)
                                  \div 2)

\* the marker of a nested event under a unit that adds a "DASH"
C6_Witness ==
    /\ fmt.op = "print_indent"
    /\ fmt.indent >= 2
    /\ indent_amount >= 4
    /\ Len(fmt.text) = (fmt.indent - 1) * indent_amount + 2 + (indent_amount - 2) \div 2

\* C10: the wrap width of a record is computed without going below zero, and
\* the callback completes
C10_WidthNeverUnderflows ==
    fmt.op \in {"on_event", "on_enter"} =>
        /\ fmt.width.ok
        /\ ~fmt.width.wrapped
        /\ ~fmt.panic

====
